---------------------------- MODULE Spec2Model ----------------------------
(***************************************************************************)
(* The query-safety and intent-routing pipeline of the swine-farm          *)
(* analytics assistant: guardrails_advanced.py (safety gate),              *)
(* workflow_unified.py (orchestrator), workflow.py (text workflow),        *)
(* workflow_chart.py / workflow_chart_local.py (chart workflows) and the   *)
(* chart_agents.py translators.  Spec is one request through               *)
(* run_unified_workflow; SpecGate is run_security_checks called on its     *)
(* own; SpecExtract is extract_sql_from_markdown applied to a text and     *)
(* then to its own result; SpecSingleton is the singleton getters called   *)
(* by the threads of one process.                                          *)
(*                                                                         *)
(* Python dicts are functions from key strings to values; a key that the   *)
(* code does not set is absent from the DOMAIN.  The Python value None is  *)
(* the string "None".  Probabilities are integers in tenths (0.5 is 5).    *)
(* Text is a sequence of tokens; each token stands for the literal piece   *)
(* of text it is named after.                                              *)
(***************************************************************************)
EXTENDS Integers, Sequences, FiniteSets, TLC

(***************************************************************************)
(* Program constants and bounds                                            *)
(***************************************************************************)

\* jailbreak_threshold=0.5 passed by every workflow, in tenths
JailbreakThreshold == 5

\* default threshold 0.7 of check_all / run_security_checks, in tenths
DefaultThreshold == 7

\* probability 1.0 in tenths: the scores a softmax can give are 0..ScoreMax
ScoreMax == 10

\* most rows the store returns in the model
MaxRows == 2

\* calls of run_security_checks made directly on one process (SpecGate)
MaxChecks == 2

(***************************************************************************)
(* Text as token sequences                                                 *)
(***************************************************************************)

\* three backticks, the markdown code fence
FENCE == "<fence>"
NL == "\n"
SP == " "

Whitespace == {SP, NL}

\* the token spelled SELECT in either case ('SELECT' in s.upper(), re.IGNORECASE)
SelectTokens == {"SELECT", "select"}

FromTokens == {"FROM", "from"}

\* the language tag after an opening fence, matched with re.IGNORECASE
SqlTagTokens == {"sql", "SQL"}

Digits == {"9"}

\* the data-changing keywords the SqlStatement invariant forbids
DmlTokens == {"INSERT", "UPDATE", "DELETE", "DROP"}

Contains(text, toks) == \E i \in 1..Len(text) : text[i] \in toks

\* str.strip(): drop leading and trailing whitespace
RECURSIVE LStrip(_)
LStrip(text) ==
    IF text # <<>> /\ Head(text) \in Whitespace THEN LStrip(Tail(text)) ELSE text

RECURSIVE RStrip(_)
RStrip(text) ==
    IF text # <<>> /\ text[Len(text)] \in Whitespace
    THEN RStrip(SubSeq(text, 1, Len(text) - 1))
    ELSE text

Strip(text) == RStrip(LStrip(text))

Min(S) == CHOOSE x \in S : \A y \in S : x <= y

\* the positions j at which "\n<fence>" starts, at or after position from
CloseFenceAt(text, from) ==
    {j \in from..(Len(text) - 1) : text[j] = NL /\ text[j + 1] = FENCE}

\* re.search(r'<fence>sql\n(.*?)\n<fence>', text, re.DOTALL | re.IGNORECASE):
\* the positions where a match can start
SqlFenceStarts(text) ==
    {i \in 1..(Len(text) - 4) :
        /\ text[i] = FENCE /\ text[i + 1] \in SqlTagTokens /\ text[i + 2] = NL
        /\ CloseFenceAt(text, i + 3) # {}}

\* group(1) of the leftmost match, the lazy .*? ending at the first "\n<fence>"
SqlFenceGroup(text) ==
    LET i == Min(SqlFenceStarts(text))
        j == Min(CloseFenceAt(text, i + 3))
    IN  SubSeq(text, i + 3, j - 1)

\* re.search(r'<fence>\n(.*?)\n<fence>', text, re.DOTALL)
CodeFenceStarts(text) ==
    {i \in 1..(Len(text) - 3) :
        /\ text[i] = FENCE /\ text[i + 1] = NL
        /\ CloseFenceAt(text, i + 2) # {}}

CodeFenceGroup(text) ==
    LET i == Min(CodeFenceStarts(text))
        j == Min(CloseFenceAt(text, i + 2))
    IN  SubSeq(text, i + 2, j - 1)

\* re.search(r'(SELECT\s+.*?;)', text, re.DOTALL | re.IGNORECASE)
SelectStmtStarts(text) ==
    {i \in 1..(Len(text) - 2) :
        /\ text[i] \in SelectTokens /\ text[i + 1] \in Whitespace
        /\ \E j \in (i + 2)..Len(text) : text[j] = ";"}

SelectStmtGroup(text) ==
    LET i == Min(SelectStmtStarts(text))
        j == Min({k \in (i + 2)..Len(text) : text[k] = ";"})
    IN  SubSeq(text, i, j)

\* The result of an extraction: the SQL, or the ValueError
Extracted(sql) == [ok |-> TRUE, sql |-> sql]
ExtractFailed == [ok |-> FALSE, sql |-> <<>>]

\* workflow.py extract_sql_from_markdown
extract_sql_from_markdown(text) ==
    IF SqlFenceStarts(text) # {}
    THEN Extracted(Strip(SqlFenceGroup(text)))
    ELSE IF CodeFenceStarts(text) # {} /\ Contains(CodeFenceGroup(text), SelectTokens)
    THEN Extracted(Strip(CodeFenceGroup(text)))
    ELSE IF SelectStmtStarts(text) # {}
    THEN Extracted(Strip(SelectStmtGroup(text)))
    ELSE IF Contains(text, SelectTokens) /\ Contains(text, FromTokens)
    THEN LET cleaned == Strip(text)
         IN  Extracted(IF cleaned[Len(cleaned)] # ";"
                       THEN Append(cleaned, ";")
                       ELSE cleaned)
    ELSE ExtractFailed

\* chart_agents.py generate_chart_sql, after the model call
chart_sql_extract(sql_text) ==
    IF SqlFenceStarts(sql_text) # {}
    THEN Extracted(Strip(SqlFenceGroup(sql_text)))
    ELSE IF CodeFenceStarts(sql_text) # {}
            /\ Contains(CodeFenceGroup(sql_text), SelectTokens)
    THEN Extracted(Strip(CodeFenceGroup(sql_text)))
    ELSE IF Contains(sql_text, SelectTokens)
    THEN Extracted(Strip(sql_text))
    ELSE ExtractFailed

(***************************************************************************)
(* State                                                                   *)
(***************************************************************************)

VARIABLES
    guardrails,       \* guardrails_advanced._guardrails is not None
    model_loaded,     \* JailbreakDetector.model_loaded of the singleton
    n_checks,         \* calls of check_all made on this process
    last_check,       \* the latest check_all call: its inputs, what the
                      \* classifiers answered, its result, its classifier calls
    pc,               \* where the request is in run_unified_workflow
    req,              \* the UnifiedWorkflowInput
    wf,               \* the workflow function that is running
    intent,           \* intent and confidence of run_unified_workflow
    confidence,
    security_result,  \* security_result of the running workflow
    sql_query,        \* sql_query of the running workflow
    executed_sql,     \* the statement given to cursor.execute
    rows,             \* len(results) of the running workflow
    result,           \* the dict run_unified_workflow returns
    outcome,          \* "running", "returned", or "raised" (exception escaped)
    raised_at,        \* the stage whose exception escaped, or "none"
    calls,            \* calls made for this request, per collaborator
    order,            \* the stages of this request in the order entered
    open_conns,       \* store connections opened and not closed
    intent_raised,    \* detect_chart_intent raised for this request
    exec_raised,      \* the exception the query executor raised, or "none"
    last_spec,        \* the chart specification call of this request: what
                      \* the service and the model did, and what it came to
    extraction,       \* a text, what extract_sql_from_markdown made of it,
                      \* what it made of that, and what the extraction of
                      \* generate_chart_sql made of the text
    parsing,          \* a model answer, the JSON candidate taken from it and
                      \* whether json.loads accepted the candidate
    instance,         \* the module globals _guardrails, _snowflake_connector:
                      \* the object each one refers to, 0 for None
    constructed,      \* constructor calls made so far, per singleton class
    thread            \* the threads calling a getter: position and locals

gate_vars == <<guardrails, model_loaded, n_checks, last_check>>

history_vars == <<intent_raised, exec_raised, last_spec>>

request_vars == <<pc, req, wf, intent, confidence, security_result, sql_query,
                  executed_sql, rows, result, outcome, raised_at, calls, order,
                  open_conns, intent_raised, exec_raised, last_spec>>

library_vars == <<extraction, parsing, instance, constructed, thread>>

vars == <<guardrails, model_loaded, n_checks, last_check, pc, req, wf, intent,
          confidence, security_result, sql_query, executed_sql, rows, result,
          outcome, raised_at, calls, order, open_conns, intent_raised,
          exec_raised, last_spec, extraction, parsing, instance, constructed,
          thread>>

\* a dict variable that has not been assigned
NoDict == [unset |-> TRUE]

(***************************************************************************)
(* The safety gate: guardrails_advanced.py                                 *)
(***************************************************************************)

\* What the two classifiers answer to one call of check_all:
\*   mod    the moderation API: flags the text, passes it, or raises
\*   load   _load_model, when the model is not loaded yet: loads or raises
\*   infer  tokenizer and model inference: gives a score or raises
\*   score  probabilities[0][1], in tenths
GateEnvs(scores) ==
    [mod : {"flagged", "clean", "error"}, load : {"ok", "fail"},
     infer : {"ok", "error"}, score : scores]

Scores == 0..ScoreMax

\* the scores around the threshold the workflows pass
PipelineScores == {JailbreakThreshold - 1, JailbreakThreshold, JailbreakThreshold + 1}

Thresholds == {JailbreakThreshold, DefaultThreshold}

\* run_openai_moderation changed to fail closed: an API error blocks
run_openai_moderation_fail_closed(env) ==
    IF env.mod = "flagged"
    THEN [blocked |-> TRUE, reason |-> "harmful_content",
          flagged_categories |-> "flagged_cats", provider |-> "OpenAI Moderation"]
    ELSE IF env.mod = "clean"
    THEN [blocked |-> FALSE, reason |-> "None", provider |-> "OpenAI Moderation"]
    ELSE [blocked |-> TRUE, error |-> "moderation API error"]

\* MultiLayerGuardrails.run_openai_moderation
run_openai_moderation(env) ==
    IF env.mod = "flagged"
    THEN [blocked |-> TRUE, reason |-> "harmful_content",
          flagged_categories |-> "flagged_cats", provider |-> "OpenAI Moderation"]
    ELSE IF env.mod = "clean"
    THEN [blocked |-> FALSE, reason |-> "None", provider |-> "OpenAI Moderation"]
    ELSE [blocked |-> FALSE, error |-> "moderation API error"]

\* The dict of detect's except branch
DetectFailed(msg) == [is_jailbreak |-> FALSE, confidence |-> 0, error |-> msg]

\* detect changed to compare with >= instead of >
detect_ge(env, threshold, loaded) ==
    IF ~loaded /\ env.load = "fail"
    THEN [res |-> DetectFailed("model load failed"), loaded |-> FALSE, loads |-> 1]
    ELSE IF env.infer = "error"
    THEN [res |-> DetectFailed("inference failed"), loaded |-> TRUE,
          loads |-> IF loaded THEN 0 ELSE 1]
    ELSE [res |-> [is_jailbreak |-> env.score >= threshold,
                   confidence |-> env.score,
                   threshold |-> threshold,
                   safe_prob |-> ScoreMax - env.score],
          loaded |-> TRUE,
          loads |-> IF loaded THEN 0 ELSE 1]

\* detect with model_loaded set before the tokenizer and the model are
\* loaded: a failed load leaves the flag set
detect_flag_before_load(env, threshold, loaded) ==
    IF ~loaded /\ env.load = "fail"
    THEN [res |-> DetectFailed("model load failed"), loaded |-> TRUE, loads |-> 1]
    ELSE IF env.infer = "error"
    THEN [res |-> DetectFailed("inference failed"), loaded |-> TRUE,
          loads |-> IF loaded THEN 0 ELSE 1]
    ELSE [res |-> [is_jailbreak |-> env.score > threshold,
                   confidence |-> env.score,
                   threshold |-> threshold,
                   safe_prob |-> ScoreMax - env.score],
          loaded |-> TRUE,
          loads |-> IF loaded THEN 0 ELSE 1]

\* JailbreakDetector.detect with _load_model: the dict returned (res), the
\* model_loaded flag afterwards (loaded), and the loads attempted (loads)
detect(env, threshold, loaded) ==
    IF ~loaded /\ env.load = "fail"
    THEN [res |-> DetectFailed("model load failed"), loaded |-> FALSE, loads |-> 1]
    ELSE IF env.infer = "error"
    THEN [res |-> DetectFailed("inference failed"), loaded |-> TRUE,
          loads |-> IF loaded THEN 0 ELSE 1]
    ELSE [res |-> [is_jailbreak |-> env.score > threshold,
                   confidence |-> env.score,
                   threshold |-> threshold,
                   safe_prob |-> ScoreMax - env.score],
          loaded |-> TRUE,
          loads |-> IF loaded THEN 0 ELSE 1]

\* dict.get(key) with the default None
Get(d, key) == IF key \in DOMAIN d THEN d[key] ELSE "None"

\* MultiLayerGuardrails.run_jailbreak_detection, given detect's dict (detect
\* catches every Exception, so the except branch here is never taken)
run_jailbreak_detection(detected) ==
    IF detected.is_jailbreak
    THEN [blocked |-> TRUE, reason |-> "jailbreak_attempt",
          confidence |-> Get(detected, "confidence"),
          threshold |-> Get(detected, "threshold"),
          provider |-> "Jailbreak Sentinel v2"]
    ELSE [blocked |-> FALSE, reason |-> "None",
          confidence |-> Get(detected, "confidence"),
          provider |-> "Jailbreak Sentinel v2"]

\* check_all with the return of the harmful-content branch left out: the
\* jailbreak check runs on flagged text too
check_all_no_return(env, jailbreak_threshold, loaded) ==
    LET openai_result == run_openai_moderation(env)
        d == detect(env, jailbreak_threshold, loaded)
        jailbreak_result == run_jailbreak_detection(d.res)
        checks == [openai_moderation |-> openai_result,
                   jailbreak_detection |-> jailbreak_result]
    IN  IF jailbreak_result.blocked
        THEN [results |-> [blocked |-> TRUE, reason |-> "jailbreak_attempt",
                           checks |-> checks, details |-> jailbreak_result],
              loaded |-> d.loaded, loads |-> d.loads,
              events |-> <<"moderation", "jailbreak">>]
        ELSE IF openai_result.blocked
        THEN [results |-> [blocked |-> TRUE, reason |-> "harmful_content",
                           checks |-> checks, details |-> openai_result,
                           safe_text |-> "text"],
              loaded |-> d.loaded, loads |-> d.loads,
              events |-> <<"moderation", "jailbreak">>]
        ELSE [results |-> [blocked |-> FALSE, reason |-> "None",
                           checks |-> checks, safe_text |-> "text"],
              loaded |-> d.loaded, loads |-> d.loads,
              events |-> <<"moderation", "jailbreak">>]

\* check_all with results["reason"] = "jailbreak_attempt" left out
check_all_no_reason(env, jailbreak_threshold, loaded) ==
    LET openai_result == run_openai_moderation(env)
        d == detect(env, jailbreak_threshold, loaded)
        jailbreak_result == run_jailbreak_detection(d.res)
    IN  IF openai_result.blocked
        THEN [results |-> [blocked |-> TRUE, reason |-> "harmful_content",
                           checks |-> [openai_moderation |-> openai_result],
                           details |-> openai_result],
              loaded |-> loaded, loads |-> 0, events |-> <<"moderation">>]
        ELSE IF jailbreak_result.blocked
        THEN [results |-> [blocked |-> TRUE, reason |-> "None",
                           checks |-> [openai_moderation |-> openai_result,
                                       jailbreak_detection |-> jailbreak_result],
                           details |-> jailbreak_result],
              loaded |-> d.loaded, loads |-> d.loads,
              events |-> <<"moderation", "jailbreak">>]
        ELSE [results |-> [blocked |-> FALSE, reason |-> "None",
                           checks |-> [openai_moderation |-> openai_result,
                                       jailbreak_detection |-> jailbreak_result],
                           safe_text |-> "text"],
              loaded |-> d.loaded, loads |-> d.loads,
              events |-> <<"moderation", "jailbreak">>]

\* MultiLayerGuardrails.check_all: the dict returned (results), model_loaded
\* afterwards, and the classifier calls it made, in order (events)
check_all(env, jailbreak_threshold, loaded) ==
    LET openai_result == run_openai_moderation(env)
        d == detect(env, jailbreak_threshold, loaded)
        jailbreak_result == run_jailbreak_detection(d.res)
    IN  IF openai_result.blocked
        THEN [results |-> [blocked |-> TRUE, reason |-> "harmful_content",
                           checks |-> [openai_moderation |-> openai_result],
                           details |-> openai_result],
              loaded |-> loaded, loads |-> 0, events |-> <<"moderation">>]
        ELSE IF jailbreak_result.blocked
        THEN [results |-> [blocked |-> TRUE, reason |-> "jailbreak_attempt",
                           checks |-> [openai_moderation |-> openai_result,
                                       jailbreak_detection |-> jailbreak_result],
                           details |-> jailbreak_result],
              loaded |-> d.loaded, loads |-> d.loads,
              events |-> <<"moderation", "jailbreak">>]
        ELSE [results |-> [blocked |-> FALSE, reason |-> "None",
                           checks |-> [openai_moderation |-> openai_result,
                                       jailbreak_detection |-> jailbreak_result],
                           safe_text |-> "text"],
              loaded |-> d.loaded, loads |-> d.loads,
              events |-> <<"moderation", "jailbreak">>]

\* What the jailbreak classifier did in a call of check_all on a process
\* whose model_loaded flag was loaded: taken from the answers, not from the code
JbOutcome(env, loaded) ==
    IF env.mod = "flagged" THEN "not_run"
    ELSE IF ~loaded /\ env.load = "fail" THEN "load_failed"
    ELSE IF env.infer = "error" THEN "infer_failed"
    ELSE "scored"

\* run_security_checks with get_guardrails: the singleton is created on first
\* use, then check_all runs on it.  MultiLayerGuardrails() builds the OpenAI
\* client that chart_agents and workflow already built, with the same key, when
\* they were imported, so its construction is taken to succeed.
run_security_checks(env, jailbreak_threshold) ==
    LET c == check_all(env, jailbreak_threshold, model_loaded)
        jb == JbOutcome(env, model_loaded)
    IN  /\ guardrails' = TRUE
        /\ model_loaded' = c.loaded
        /\ n_checks' = n_checks + 1
        /\ last_check' = [threshold |-> jailbreak_threshold,
                          mod |-> env.mod, jb |-> jb,
                          score |-> IF jb = "scored" THEN env.score ELSE 0,
                          was_loaded |-> model_loaded,
                          results |-> c.results, loads |-> c.loads,
                          events |-> c.events]

NoCheck ==
    [threshold |-> 0, mod |-> "none", jb |-> "not_run", score |-> 0,
     was_loaded |-> FALSE, results |-> NoDict, loads |-> 0, events |-> <<>>]

(***************************************************************************)
(* The query executors                                                     *)
(***************************************************************************)

\* What the store does in one call of an executor:
\*   db_exists  the SQLite file is there (execute_sqlite_query only)
\*   connect    connect(): succeeds, or raises (network policy, no connection)
\*   cursor     conn.cursor(): succeeds or raises
\*   execute    cursor.execute(sql): succeeds or raises a SQL error
\*   close      cursor.close(): succeeds or raises
\*   rows       the rows fetchall() gives
ExecEnvs ==
    [db_exists : BOOLEAN,
     connect : {"ok", "Network policy is required", "Failed to connect"},
     cursor : {"ok", "fail"}, execute : {"ok", "fail"}, close : {"ok", "fail"},
     rows : 0..MaxRows]

\* What an executor call comes to: the exception it raises ("none" when it
\* returns), the rows returned, whether the statement reached cursor.execute,
\* and the connections it opened and did not close
ExecResult(raised, n, executed, leaked) ==
    [raised |-> raised, rows |-> n, executed |-> executed, leaked |-> leaked]

\* workflow.py execute_snowflake_query: connect() outside the try, then
\* try: cursor/execute/fetchall, finally: cursor.close(); conn.close()
execute_snowflake_query(env) ==
    IF env.connect # "ok"
    THEN ExecResult(env.connect, 0, FALSE, 0)
    ELSE IF env.cursor = "fail"
    \* cursor is unbound in the finally block: cursor.close() raises
    \* UnboundLocalError and conn.close() is not reached
    THEN ExecResult("UnboundLocalError", 0, FALSE, 1)
    ELSE IF env.close = "fail"
    \* cursor.close() raises in the finally block: conn.close() is not reached
    THEN ExecResult("cursor close error", 0, TRUE, 1)
    ELSE IF env.execute = "fail"
    THEN ExecResult("SQL compilation error", 0, TRUE, 0)
    ELSE ExecResult("none", env.rows, TRUE, 0)

\* workflow_chart.py execute_snowflake_query: the same code, copied
chart_execute_snowflake_query(env) == execute_snowflake_query(env)

\* The dialect rewrite of execute_sqlite_query: the table name is lowered
\* (the DATE() and INTERVAL rewrites touch text the token alphabet lacks)
sqlite_rewrite(sql) ==
    [i \in DOMAIN sql |-> IF sql[i] = "SWINE_ALERT" THEN "swine_alert" ELSE sql[i]]

\* workflow_chart_local.py execute_sqlite_query
execute_sqlite_query(env) ==
    IF ~env.db_exists
    THEN ExecResult("FileNotFoundError", 0, FALSE, 0)
    ELSE IF env.cursor = "fail"
    THEN ExecResult("UnboundLocalError", 0, FALSE, 1)
    ELSE IF env.close = "fail"
    THEN ExecResult("cursor close error", 0, TRUE, 1)
    ELSE IF env.execute = "fail"
    THEN ExecResult("no such column", 0, TRUE, 0)
    ELSE ExecResult("none", env.rows, TRUE, 0)

(***************************************************************************)
(* The language-model collaborators                                        *)
(***************************************************************************)

\* A well-formed statement, and the texts a translator model can answer with
GoodSql ==
    <<"SELECT", SP, "x", SP, "FROM", SP, "SWINE_ALERT", SP, "LIMIT", SP, "9", ";">>

ModelResponses ==
    { <<FENCE, "sql", NL>> \o GoodSql \o <<NL, FENCE>>,
      <<FENCE, NL>> \o GoodSql \o <<NL, FENCE>>,
      <<"x", SP>> \o GoodSql \o <<SP, "x">>,
      <<"x", SP, "x">>,
      <<FENCE, "sql", NL, "DROP", SP, "SWINE_ALERT", ";", NL, FENCE>>,
      <<"select", SP, "x", SP, "from", SP, "SWINE_ALERT">>,
      <<"SELECT", SP, "9">> }

\* One translator call: the model answers with a text, or the call raises
TranslateEnvs == [llm : {"ok", "error"}, response : ModelResponses]

\* What the intent model answers: an intent with a confidence, or it raises
\* (call error, JSON parse failure, validation failure)
IntentConfidences == {2, 9}

IntentEnvs == [llm : {"chart", "text", "error"}, confidence : IntentConfidences]

\* confidence = 1.0 of a forced intent, in tenths
ForcedConfidence == 10

\* confidence = 0.5 when intent detection raised, in tenths
FallbackConfidence == 5

(***************************************************************************)
(* The orchestrator: workflow_unified.py                                   *)
(***************************************************************************)

Requests ==
    [force_chart : BOOLEAN, force_text : BOOLEAN, use_mcp_server : BOOLEAN,
     mcp_server_url : {"None", "", "url"}, use_local_db : BOOLEAN]

NoRequest ==
    [force_chart |-> FALSE, force_text |-> FALSE, use_mcp_server |-> FALSE,
     mcp_server_url |-> "None", use_local_db |-> FALSE]

NoCalls ==
    [intent |-> 0, security |-> 0, translator |-> 0, snowflake |-> 0,
     sqlite |-> 0, interpreter |-> 0, specifier |-> 0, mcp |-> 0]

\* One call of a collaborator: counted
Called(who) == [calls EXCEPT ![who] = @ + 1]

\* A caller hands a request to run_unified_workflow
Submit ==
    /\ pc = "idle"
    /\ \E r \in Requests : req' = r
    /\ pc' = "route"
    /\ UNCHANGED <<wf, intent, confidence, security_result, sql_query,
                   executed_sql, rows, result, outcome, raised_at, calls, order,
                   open_conns>>
    /\ UNCHANGED gate_vars
    /\ UNCHANGED history_vars
    /\ UNCHANGED library_vars

\* run_unified_workflow with the try block around detect_chart_intent left
\* out: the exception of the intent detection leaves run_unified_workflow
Unified_DetectIntent_NoExcept ==
    /\ pc = "route"
    /\ \E ienv \in IntentEnvs :
        IF req.force_chart \/ req.force_text
        THEN /\ intent' = IF req.force_chart THEN "chart" ELSE "text"
             /\ confidence' = ForcedConfidence
             /\ pc' = IF intent' = "chart" /\ req.use_local_db
                      THEN "import_local" ELSE "security"
             /\ wf' = IF intent' = "text" THEN "text"
                      ELSE IF req.use_local_db THEN "none" ELSE "chart"
             /\ UNCHANGED <<calls, order, intent_raised, outcome, raised_at>>
        ELSE /\ calls' = Called("intent")
             /\ order' = Append(order, "intent")
             /\ intent_raised' = (ienv.llm = "error")
             /\ IF ienv.llm = "error"
                THEN /\ raised_at' = "intent"
                     /\ outcome' = "raised"
                     /\ pc' = "done"
                     /\ UNCHANGED <<intent, confidence, wf>>
                ELSE /\ intent' = ienv.llm
                     /\ confidence' = ienv.confidence
                     /\ pc' = IF intent' = "chart" /\ req.use_local_db
                              THEN "import_local" ELSE "security"
                     /\ wf' = IF intent' = "text" THEN "text"
                              ELSE IF req.use_local_db THEN "none" ELSE "chart"
                     /\ UNCHANGED <<outcome, raised_at>>
    /\ UNCHANGED <<req, security_result, sql_query, executed_sql, rows, result,
                   open_conns, exec_raised, last_spec>>
    /\ UNCHANGED gate_vars
    /\ UNCHANGED library_vars

\* run_unified_workflow with the test of the force flags left out: every
\* request goes through detect_chart_intent
Unified_DetectIntent_Unforced ==
    /\ pc = "route"
    /\ \E ienv \in IntentEnvs :
        /\ calls' = Called("intent")
        /\ order' = Append(order, "intent")
        /\ intent_raised' = (ienv.llm = "error")
        /\ IF ienv.llm = "error"
           THEN intent' = "text" /\ confidence' = FallbackConfidence
           ELSE intent' = ienv.llm /\ confidence' = ienv.confidence
    /\ IF intent' = "chart"
       THEN IF req.use_local_db
            THEN pc' = "import_local" /\ wf' = "none"
            ELSE pc' = "security" /\ wf' = "chart"
       ELSE pc' = "security" /\ wf' = "text"
    /\ UNCHANGED <<req, security_result, sql_query, executed_sql, rows, result,
                   outcome, raised_at, open_conns>>
    /\ UNCHANGED gate_vars
    /\ UNCHANGED <<exec_raised, last_spec>>
    /\ UNCHANGED library_vars

\* run_unified_workflow up to the choice of the workflow: the forced routing,
\* or detect_chart_intent with its except branch, then the routing on intent
Unified_DetectIntent ==
    /\ pc = "route"
    /\ \E ienv \in IntentEnvs :
        /\ IF req.force_chart
           THEN /\ intent' = "chart"
                /\ confidence' = ForcedConfidence
                /\ UNCHANGED <<calls, order, intent_raised>>
           ELSE IF req.force_text
           THEN /\ intent' = "text"
                /\ confidence' = ForcedConfidence
                /\ UNCHANGED <<calls, order, intent_raised>>
           ELSE /\ calls' = Called("intent")
                /\ order' = Append(order, "intent")
                /\ intent_raised' = (ienv.llm = "error")
                /\ IF ienv.llm = "error"
                   THEN intent' = "text" /\ confidence' = FallbackConfidence
                   ELSE intent' = ienv.llm /\ confidence' = ienv.confidence
    /\ IF intent' = "chart"
       THEN IF req.use_local_db
            THEN pc' = "import_local" /\ wf' = "none"
            ELSE pc' = "security" /\ wf' = "chart"
       ELSE pc' = "security" /\ wf' = "text"
    /\ UNCHANGED <<req, security_result, sql_query, executed_sql, rows, result,
                   outcome, raised_at, open_conns>>
    /\ UNCHANGED gate_vars
    /\ UNCHANGED <<exec_raised, last_spec>>
    /\ UNCHANGED library_vars

(***************************************************************************)
(* The text workflow: workflow.py run_workflow.  It has no try block: an    *)
(* exception of any stage leaves run_workflow and run_unified_workflow.     *)
(***************************************************************************)

\* The exception of a stage escapes to the caller of run_unified_workflow
Escapes(stage) ==
    /\ raised_at' = stage
    /\ outcome' = "raised"
    /\ pc' = "done"

SecurityError(security) == <<"Security check failed", security.reason>>

\* Step 1 with the test of security_result.get("blocked") left out
RunWorkflow_Security_Unchecked ==
    /\ pc = "security" /\ wf = "text"
    /\ \E env \in GateEnvs(PipelineScores) :
           run_security_checks(env, JailbreakThreshold)
    /\ security_result' = last_check'.results
    /\ calls' = Called("security")
    /\ order' = Append(order, "security")
    /\ pc' = "translate"
    /\ UNCHANGED <<req, wf, intent, confidence, sql_query, executed_sql, rows,
                   result, outcome, raised_at, open_conns>>
    /\ UNCHANGED history_vars
    /\ UNCHANGED library_vars

\* Step 1: run_security_checks, and the return on a block
RunWorkflow_Security ==
    /\ pc = "security" /\ wf = "text"
    /\ \E env \in GateEnvs(PipelineScores) :
           run_security_checks(env, JailbreakThreshold)
    /\ security_result' = last_check'.results
    /\ calls' = Called("security")
    /\ order' = Append(order, "security")
    /\ IF security_result'.blocked
       THEN /\ result' = [success |-> FALSE,
                          error |-> SecurityError(security_result')]
            /\ pc' = "returned"
       ELSE /\ pc' = "translate"
            /\ UNCHANGED result
    /\ UNCHANGED <<req, wf, intent, confidence, sql_query, executed_sql, rows,
                   outcome, raised_at, open_conns>>
    /\ UNCHANGED history_vars
    /\ UNCHANGED library_vars

\* Step 2: the translator model call and extract_sql_from_markdown
RunWorkflow_Translate ==
    /\ pc = "translate" /\ wf = "text"
    /\ calls' = Called("translator")
    /\ order' = Append(order, "translate")
    /\ \E tenv \in TranslateEnvs :
        IF tenv.llm = "error"
        THEN Escapes("translate") /\ UNCHANGED sql_query
        ELSE LET x == extract_sql_from_markdown(tenv.response)
             IN  IF x.ok
                 THEN /\ sql_query' = x.sql
                      /\ pc' = "execute"
                      /\ UNCHANGED <<outcome, raised_at>>
                 ELSE Escapes("extract") /\ UNCHANGED sql_query
    /\ UNCHANGED <<req, wf, intent, confidence, security_result, executed_sql,
                   rows, result, open_conns>>
    /\ UNCHANGED gate_vars
    /\ UNCHANGED history_vars
    /\ UNCHANGED library_vars

\* Step 3 with the test "if not results" of the chart workflows added: an
\* empty result is returned as a failure and the interpreter is not called
RunWorkflow_Execute_EmptyFails ==
    /\ pc = "execute" /\ wf = "text"
    /\ calls' = Called("snowflake")
    /\ order' = Append(order, "execute")
    /\ \E xenv \in ExecEnvs :
        LET r == execute_snowflake_query(xenv)
        IN  /\ open_conns' = open_conns + r.leaked
            /\ exec_raised' = r.raised
            /\ executed_sql' = IF r.executed THEN sql_query ELSE executed_sql
            /\ IF r.raised # "none"
               THEN Escapes("execute") /\ UNCHANGED <<rows, result>>
               ELSE IF r.rows = 0
               THEN /\ result' = [success |-> FALSE,
                                  error |-> <<"Query returned no results", "">>,
                                  sql_query |-> sql_query]
                    /\ rows' = r.rows
                    /\ pc' = "returned"
                    /\ UNCHANGED <<outcome, raised_at>>
               ELSE /\ rows' = r.rows
                    /\ pc' = "respond"
                    /\ UNCHANGED <<outcome, raised_at, result>>
    /\ UNCHANGED <<req, wf, intent, confidence, security_result, sql_query>>
    /\ UNCHANGED gate_vars
    /\ UNCHANGED <<intent_raised, last_spec>>
    /\ UNCHANGED library_vars

\* Step 3: execute_snowflake_query(sql_query)
RunWorkflow_Execute ==
    /\ pc = "execute" /\ wf = "text"
    /\ calls' = Called("snowflake")
    /\ order' = Append(order, "execute")
    /\ \E xenv \in ExecEnvs :
        LET r == execute_snowflake_query(xenv)
        IN  /\ open_conns' = open_conns + r.leaked
            /\ exec_raised' = r.raised
            /\ executed_sql' = IF r.executed THEN sql_query ELSE executed_sql
            /\ IF r.raised # "none"
               THEN Escapes("execute") /\ UNCHANGED rows
               ELSE /\ rows' = r.rows
                    /\ pc' = "respond"
                    /\ UNCHANGED <<outcome, raised_at>>
    /\ UNCHANGED <<req, wf, intent, confidence, security_result, sql_query,
                   result>>
    /\ UNCHANGED gate_vars
    /\ UNCHANGED <<intent_raised, last_spec>>
    /\ UNCHANGED library_vars

\* Step 4 with the analysis left out of the success dict
RunWorkflow_Interpret_NoAnalysis ==
    /\ pc = "respond" /\ wf = "text"
    /\ calls' = Called("interpreter")
    /\ order' = Append(order, "interpret")
    /\ \E llm \in {"ok", "error"} :
        IF llm = "error"
        THEN Escapes("interpret") /\ UNCHANGED result
        ELSE /\ result' = [success |-> TRUE,
                           sql_query |-> sql_query,
                           raw_results |-> rows,
                           moderation_provider |-> "OpenAI Moderation"]
             /\ pc' = "returned"
             /\ UNCHANGED <<outcome, raised_at>>
    /\ UNCHANGED <<req, wf, intent, confidence, security_result, sql_query,
                   executed_sql, rows, open_conns>>
    /\ UNCHANGED gate_vars
    /\ UNCHANGED history_vars
    /\ UNCHANGED library_vars

\* Step 4: the interpreter model call, and the success dict
RunWorkflow_Interpret ==
    /\ pc = "respond" /\ wf = "text"
    /\ calls' = Called("interpreter")
    /\ order' = Append(order, "interpret")
    /\ \E llm \in {"ok", "error"} :
        IF llm = "error"
        THEN Escapes("interpret") /\ UNCHANGED result
        ELSE /\ result' = [success |-> TRUE,
                           sql_query |-> sql_query,
                           raw_results |-> rows,
                           analysis |-> "narrative",
                           moderation_provider |->
                               IF "provider" \in DOMAIN security_result
                               THEN security_result.provider
                               ELSE "OpenAI Moderation"]
             /\ pc' = "returned"
             /\ UNCHANGED <<outcome, raised_at>>
    /\ UNCHANGED <<req, wf, intent, confidence, security_result, sql_query,
                   executed_sql, rows, open_conns>>
    /\ UNCHANGED gate_vars
    /\ UNCHANGED history_vars
    /\ UNCHANGED library_vars

(***************************************************************************)
(* The chart specifier: chart_agents.py                                    *)
(***************************************************************************)

\* The chart specifications a model or the service can answer with: pydantic
\* accepts a str or a list as y_axis with any chart_type
ChartSpecs == [chart_type : {"line", "multi_line"}, y_axis : {"str", "list"}]

NoSpec == [chart_type |-> "none", y_axis |-> "none"]

\* What the collaborators of one specification do:
\*   post       requests.post: answers 200, answers another status, or raises
\*   body       the 200 body: a valid ChartSpecification or not
\*   llm        the specifier model call with JSON parsing and validation
\*   llm_again  the same, should generate_chart_specification be called again
\*   spec       the specification the successful collaborator gives
SpecEnvs ==
    [post : {"200", "500", "error"}, body : {"valid", "invalid"},
     llm : {"ok", "error"}, llm_again : {"ok", "error"}, spec : ChartSpecs]

SpecResult(ok, spec, llm_calls, mcp_calls) ==
    [ok |-> ok, spec |-> spec, llm_calls |-> llm_calls, mcp_calls |-> mcp_calls]

\* generate_chart_specification: raises on an empty result set before any
\* model call; otherwise returns the specification, or raises
generate_chart_specification(query_results, llm, spec) ==
    IF query_results = 0 THEN SpecResult(FALSE, NoSpec, 0, 0)
    ELSE IF llm = "ok" THEN SpecResult(TRUE, spec, 1, 0)
    ELSE SpecResult(FALSE, NoSpec, 1, 0)

\* "not mcp_server_url": None or the empty string
NoUrl == {"None", ""}

\* generate_chart_specification_mcp without its fallbacks: a transport error,
\* an unusable body or a non-200 answer leaves the function as an exception
generate_chart_specification_mcp_no_fallback(query_results, mcp_server_url, env) ==
    IF mcp_server_url \in NoUrl
    THEN generate_chart_specification(query_results, env.llm, env.spec)
    ELSE IF env.post = "200" /\ env.body = "valid"
    THEN SpecResult(TRUE, env.spec, 0, 1)
    ELSE SpecResult(FALSE, NoSpec, 0, 1)

\* generate_chart_specification_mcp: both returns of the try block sit inside
\* it, so an exception of the non-200 fallback is caught by the except branch,
\* which calls generate_chart_specification once more
generate_chart_specification_mcp(query_results, mcp_server_url, env) ==
    LET first == generate_chart_specification(query_results, env.llm, env.spec)
        again == generate_chart_specification(query_results, env.llm_again, env.spec)
        After(r, llm_before) ==
            SpecResult(r.ok, r.spec, llm_before + r.llm_calls, 1)
    IN  IF mcp_server_url \in NoUrl
        THEN first
        \* requests.post raised: the except branch calls the model specifier
        ELSE IF env.post = "error"
        THEN After(first, 0)
        ELSE IF env.post = "200"
        THEN IF env.body = "valid"
             THEN SpecResult(TRUE, env.spec, 0, 1)
             \* response.json() or ChartSpecification(**spec_data) raised
             ELSE After(first, 0)
        \* another status: the model specifier is called inside the try block
        ELSE IF first.ok
        THEN After(first, 0)
        \* and its exception is caught by the except branch, which calls it again
        ELSE After(again, first.llm_calls)

\* Step 4 of both chart workflows: the choice of the specifier
specify(workflow_input, results, env) ==
    IF workflow_input.use_mcp_server
    THEN generate_chart_specification_mcp(results, workflow_input.mcp_server_url, env)
    ELSE generate_chart_specification(results, env.llm, env.spec)

\* The record of one specification call: what was selected, what each
\* collaborator that was called did ("none" for one that was not called),
\* and the result
SpecCall(workflow_input, env, r) ==
    LET post == IF workflow_input.use_mcp_server
                   /\ workflow_input.mcp_server_url \notin NoUrl
                THEN env.post ELSE "none"
    IN  [use_mcp_server |-> workflow_input.use_mcp_server,
         mcp_server_url |-> workflow_input.mcp_server_url,
         post |-> post,
         body |-> IF post = "200" THEN env.body ELSE "none",
         llm |-> IF r.llm_calls >= 1 THEN env.llm ELSE "none",
         llm_again |-> IF r.llm_calls = 2 THEN env.llm_again ELSE "none",
         ok |-> r.ok, spec |-> r.spec,
         llm_calls |-> r.llm_calls, mcp_calls |-> r.mcp_calls]

NoSpecCall ==
    [use_mcp_server |-> FALSE, mcp_server_url |-> "None", post |-> "none",
     body |-> "none", llm |-> "none", llm_again |-> "none", ok |-> FALSE,
     spec |-> NoSpec, llm_calls |-> 0, mcp_calls |-> 0]

\* generate_chart_sql: the translator model call and the extraction
generate_chart_sql(tenv) ==
    IF tenv.llm = "error" THEN ExtractFailed ELSE chart_sql_extract(tenv.response)

(***************************************************************************)
(* The chart workflow on Snowflake: workflow_chart.py run_chart_workflow    *)
(***************************************************************************)

\* A stage's exception is caught and becomes the workflow's failure dict
Caught(stage, dict) ==
    /\ raised_at' = stage
    /\ result' = dict
    /\ pc' = "returned"

\* Step 1: run_security_checks, and the return on a block
RunChart_Security ==
    /\ pc = "security" /\ wf = "chart"
    /\ \E env \in GateEnvs(PipelineScores) :
           run_security_checks(env, JailbreakThreshold)
    /\ security_result' = last_check'.results
    /\ calls' = Called("security")
    /\ order' = Append(order, "security")
    /\ IF security_result'.blocked
       THEN /\ result' = [success |-> FALSE,
                          error |-> SecurityError(security_result'),
                          details |-> security_result']
            /\ pc' = "returned"
       ELSE /\ pc' = "translate"
            /\ UNCHANGED result
    /\ UNCHANGED <<req, wf, intent, confidence, sql_query, executed_sql, rows,
                   outcome, raised_at, open_conns>>
    /\ UNCHANGED history_vars
    /\ UNCHANGED library_vars

\* Step 2 with the return of its except branch left out: after a failed SQL
\* generation the workflow goes on to step 3
RunChart_GenerateSql_NoReturn ==
    /\ pc = "translate" /\ wf = "chart"
    /\ calls' = Called("translator")
    /\ order' = Append(order, "translate")
    /\ \E tenv \in TranslateEnvs :
        LET x == generate_chart_sql(tenv)
        IN  /\ sql_query' = x.sql
            /\ pc' = "execute"
            /\ raised_at' = IF x.ok THEN raised_at
                            ELSE IF tenv.llm = "error" THEN "translate"
                            ELSE "extract"
            /\ UNCHANGED result
    /\ UNCHANGED <<req, wf, intent, confidence, security_result, executed_sql,
                   rows, outcome, open_conns>>
    /\ UNCHANGED gate_vars
    /\ UNCHANGED history_vars
    /\ UNCHANGED library_vars

\* Step 2: generate_chart_sql in its try block
RunChart_GenerateSql ==
    /\ pc = "translate" /\ wf = "chart"
    /\ calls' = Called("translator")
    /\ order' = Append(order, "translate")
    /\ \E tenv \in TranslateEnvs :
        LET x == generate_chart_sql(tenv)
        IN  IF x.ok
            THEN /\ sql_query' = x.sql
                 /\ pc' = "execute"
                 /\ UNCHANGED <<result, raised_at>>
            ELSE /\ Caught(IF tenv.llm = "error" THEN "translate" ELSE "extract",
                           [success |-> FALSE,
                            error |-> <<"SQL generation failed", "no SQL">>])
                 /\ UNCHANGED sql_query
    /\ UNCHANGED <<req, wf, intent, confidence, security_result, executed_sql,
                   rows, outcome, open_conns>>
    /\ UNCHANGED gate_vars
    /\ UNCHANGED history_vars
    /\ UNCHANGED library_vars

\* Step 3 without the test "if not results": an empty result goes on to the
\* chart specification
RunChart_Execute_NoEmptyCheck ==
    /\ pc = "execute" /\ wf = "chart"
    /\ calls' = Called("snowflake")
    /\ order' = Append(order, "execute")
    /\ \E xenv \in ExecEnvs :
        LET r == chart_execute_snowflake_query(xenv)
        IN  /\ open_conns' = open_conns + r.leaked
            /\ exec_raised' = r.raised
            /\ executed_sql' = IF r.executed THEN sql_query ELSE executed_sql
            /\ IF r.raised # "none"
               THEN /\ Caught("execute",
                              [success |-> FALSE,
                               error |-> <<"Query execution failed", r.raised>>,
                               sql_query |-> sql_query])
                    /\ UNCHANGED rows
               ELSE /\ rows' = r.rows
                    /\ pc' = "respond"
                    /\ UNCHANGED <<result, raised_at>>
    /\ UNCHANGED <<req, wf, intent, confidence, security_result, sql_query,
                   outcome>>
    /\ UNCHANGED gate_vars
    /\ UNCHANGED <<intent_raised, last_spec>>
    /\ UNCHANGED library_vars

\* Step 3: execute_snowflake_query in its try block, and the empty result
RunChart_Execute ==
    /\ pc = "execute" /\ wf = "chart"
    /\ calls' = Called("snowflake")
    /\ order' = Append(order, "execute")
    /\ \E xenv \in ExecEnvs :
        LET r == chart_execute_snowflake_query(xenv)
        IN  /\ open_conns' = open_conns + r.leaked
            /\ exec_raised' = r.raised
            /\ executed_sql' = IF r.executed THEN sql_query ELSE executed_sql
            /\ IF r.raised # "none"
               THEN /\ Caught("execute",
                              [success |-> FALSE,
                               error |-> <<"Query execution failed", r.raised>>,
                               sql_query |-> sql_query])
                    /\ UNCHANGED rows
               ELSE IF r.rows = 0
               THEN /\ result' = [success |-> FALSE,
                                  error |-> <<"Query returned no results", "">>,
                                  sql_query |-> sql_query]
                    /\ rows' = r.rows
                    /\ pc' = "returned"
                    /\ UNCHANGED raised_at
               ELSE /\ rows' = r.rows
                    /\ pc' = "respond"
                    /\ UNCHANGED <<result, raised_at>>
    /\ UNCHANGED <<req, wf, intent, confidence, security_result, sql_query,
                   outcome>>
    /\ UNCHANGED gate_vars
    /\ UNCHANGED <<intent_raised, last_spec>>
    /\ UNCHANGED library_vars

\* Step 4: the chart specification in its try block, and the success dict
RunChart_Specify ==
    /\ pc = "respond" /\ wf = "chart"
    /\ order' = Append(order, "specify")
    /\ \E senv \in SpecEnvs :
        LET r == specify(req, rows, senv)
        IN  /\ last_spec' = SpecCall(req, senv, r)
            /\ calls' = [calls EXCEPT !.specifier = @ + r.llm_calls,
                                      !.mcp = @ + r.mcp_calls]
            /\ IF r.ok
               THEN /\ result' = [success |-> TRUE,
                                  workflow_type |-> "chart",
                                  sql_query |-> sql_query,
                                  raw_results |-> rows,
                                  chart_spec |-> r.spec,
                                  security_checks |-> security_result,
                                  row_count |-> rows]
                    /\ pc' = "returned"
                    /\ UNCHANGED raised_at
               ELSE Caught("specify",
                           [success |-> FALSE,
                            error |-> <<"Chart specification failed", "no spec">>,
                            sql_query |-> sql_query,
                            raw_results |-> rows])
    /\ UNCHANGED <<req, wf, intent, confidence, security_result, sql_query,
                   executed_sql, rows, outcome, open_conns>>
    /\ UNCHANGED gate_vars
    /\ UNCHANGED <<intent_raised, exec_raised>>
    /\ UNCHANGED library_vars

(***************************************************************************)
(* The chart workflow of workflow_chart_local.py, and its use by            *)
(* run_unified_workflow when use_local_db is set                            *)
(***************************************************************************)

\* LocalInput(..., use_local_db=True) built by run_unified_workflow
LocalInput(r) ==
    [use_mcp_server |-> r.use_mcp_server, mcp_server_url |-> r.mcp_server_url,
     use_local_db |-> TRUE]

\* The import of workflow_chart_local inside the try block: it succeeds and
\* run_chart_local starts, or it raises and the except branch is taken
Unified_ImportLocal ==
    /\ pc = "import_local"
    /\ \E import \in {"ok", "ImportError"} :
        IF import = "ok"
        THEN pc' = "security" /\ wf' = "chart_local"
        ELSE pc' = "local_failed" /\ wf' = "none"
    /\ UNCHANGED <<req, intent, confidence, security_result, sql_query,
                   executed_sql, rows, result, outcome, raised_at, calls, order,
                   open_conns>>
    /\ UNCHANGED gate_vars
    /\ UNCHANGED history_vars
    /\ UNCHANGED library_vars

\* The except branch of the local attempt: run_chart_workflow of
\* workflow_chart.py is called on the same question
Unified_LocalFallback ==
    /\ pc = "local_failed"
    /\ pc' = "security"
    /\ wf' = "chart"
    /\ UNCHANGED <<req, intent, confidence, security_result, sql_query,
                   executed_sql, rows, result, outcome, raised_at, calls, order,
                   open_conns>>
    /\ UNCHANGED gate_vars
    /\ UNCHANGED history_vars
    /\ UNCHANGED library_vars

\* Step 1: run_security_checks, and the return on a block
RunChartLocal_Security ==
    /\ pc = "security" /\ wf = "chart_local"
    /\ \E env \in GateEnvs(PipelineScores) :
           run_security_checks(env, JailbreakThreshold)
    /\ security_result' = last_check'.results
    /\ calls' = Called("security")
    /\ order' = Append(order, "security")
    /\ IF security_result'.blocked
       THEN /\ result' = [success |-> FALSE,
                          error |-> SecurityError(security_result'),
                          details |-> security_result']
            /\ pc' = "returned"
       ELSE /\ pc' = "translate"
            /\ UNCHANGED result
    /\ UNCHANGED <<req, wf, intent, confidence, sql_query, executed_sql, rows,
                   outcome, raised_at, open_conns>>
    /\ UNCHANGED history_vars
    /\ UNCHANGED library_vars

\* Step 2: generate_chart_sql in its try block
RunChartLocal_GenerateSql ==
    /\ pc = "translate" /\ wf = "chart_local"
    /\ calls' = Called("translator")
    /\ order' = Append(order, "translate")
    /\ \E tenv \in TranslateEnvs :
        LET x == generate_chart_sql(tenv)
        IN  IF x.ok
            THEN /\ sql_query' = x.sql
                 /\ pc' = "execute"
                 /\ UNCHANGED <<result, raised_at>>
            ELSE /\ Caught(IF tenv.llm = "error" THEN "translate" ELSE "extract",
                           [success |-> FALSE,
                            error |-> <<"SQL generation failed", "no SQL">>])
                 /\ UNCHANGED sql_query
    /\ UNCHANGED <<req, wf, intent, confidence, security_result, executed_sql,
                   rows, outcome, open_conns>>
    /\ UNCHANGED gate_vars
    /\ UNCHANGED history_vars
    /\ UNCHANGED library_vars

\* "Network policy is required" in error_msg or "Failed to connect" in error_msg
IsConnectivityError(error_msg) ==
    error_msg \in {"Network policy is required", "Failed to connect"}

\* Step 3 without its try block: the executor's exception leaves
\* run_chart_local and reaches the except branch of run_unified_workflow
RunChartLocal_Execute_Uncaught ==
    /\ pc = "execute" /\ wf = "chart_local"
    /\ order' = Append(order, "execute")
    /\ \E xenv \in ExecEnvs :
        LET r == execute_sqlite_query(xenv)
        IN  /\ calls' = Called("sqlite")
            /\ open_conns' = open_conns + r.leaked
            /\ exec_raised' = r.raised
            /\ executed_sql' = IF ~r.executed THEN executed_sql
                               ELSE sqlite_rewrite(sql_query)
            /\ IF r.raised # "none"
               THEN /\ raised_at' = "execute"
                    /\ pc' = "local_failed"
                    /\ UNCHANGED <<rows, result>>
               ELSE IF r.rows = 0
               THEN /\ result' = [success |-> FALSE,
                                  error |-> <<"Query returned no results", "">>,
                                  sql_query |-> sql_query]
                    /\ rows' = r.rows
                    /\ pc' = "returned"
                    /\ UNCHANGED raised_at
               ELSE /\ rows' = r.rows
                    /\ pc' = "respond"
                    /\ UNCHANGED <<result, raised_at>>
    /\ UNCHANGED <<req, wf, intent, confidence, security_result, sql_query,
                   outcome>>
    /\ UNCHANGED gate_vars
    /\ UNCHANGED <<intent_raised, last_spec>>
    /\ UNCHANGED library_vars

\* Step 3: the executor the input selects, in its try block; the empty
\* result; the connectivity failure with its suggestion
RunChartLocal_Execute ==
    /\ pc = "execute" /\ wf = "chart_local"
    /\ order' = Append(order, "execute")
    /\ \E xenv \in ExecEnvs :
        LET local == LocalInput(req).use_local_db
            r == IF local THEN execute_sqlite_query(xenv)
                 ELSE chart_execute_snowflake_query(xenv)
        IN  /\ calls' = Called(IF local THEN "sqlite" ELSE "snowflake")
            /\ open_conns' = open_conns + r.leaked
            /\ exec_raised' = r.raised
            /\ executed_sql' = IF ~r.executed THEN executed_sql
                               ELSE IF local THEN sqlite_rewrite(sql_query)
                               ELSE sql_query
            /\ IF r.raised # "none"
               THEN /\ Caught("execute",
                        IF IsConnectivityError(r.raised)
                        THEN [success |-> FALSE,
                              error |-> <<"Snowflake network policy error",
                                          "Your IP address is not whitelisted">>,
                              sql_query |-> sql_query,
                              suggestion |-> "Contact your Snowflake admin"]
                        ELSE [success |-> FALSE,
                              error |-> <<"Query execution failed", r.raised>>,
                              sql_query |-> sql_query])
                    /\ UNCHANGED rows
               ELSE IF r.rows = 0
               THEN /\ result' = [success |-> FALSE,
                                  error |-> <<"Query returned no results", "">>,
                                  sql_query |-> sql_query]
                    /\ rows' = r.rows
                    /\ pc' = "returned"
                    /\ UNCHANGED raised_at
               ELSE /\ rows' = r.rows
                    /\ pc' = "respond"
                    /\ UNCHANGED <<result, raised_at>>
    /\ UNCHANGED <<req, wf, intent, confidence, security_result, sql_query,
                   outcome>>
    /\ UNCHANGED gate_vars
    /\ UNCHANGED <<intent_raised, last_spec>>
    /\ UNCHANGED library_vars

\* Step 4: the chart specification in its try block, and the success dict
RunChartLocal_Specify ==
    /\ pc = "respond" /\ wf = "chart_local"
    /\ order' = Append(order, "specify")
    /\ \E senv \in SpecEnvs :
        LET r == specify(LocalInput(req), rows, senv)
        IN  /\ last_spec' = SpecCall(LocalInput(req), senv, r)
            /\ calls' = [calls EXCEPT !.specifier = @ + r.llm_calls,
                                      !.mcp = @ + r.mcp_calls]
            /\ IF r.ok
               THEN /\ result' = [success |-> TRUE,
                                  workflow_type |-> "chart",
                                  sql_query |-> sql_query,
                                  raw_results |-> rows,
                                  chart_spec |-> r.spec,
                                  security_checks |-> security_result,
                                  row_count |-> rows,
                                  database |->
                                      IF LocalInput(req).use_local_db
                                      THEN "SQLite (Local)"
                                      ELSE "Snowflake (Production)"]
                    /\ pc' = "returned"
                    /\ UNCHANGED raised_at
               ELSE Caught("specify",
                           [success |-> FALSE,
                            error |-> <<"Chart specification failed", "no spec">>,
                            sql_query |-> sql_query,
                            raw_results |-> rows])
    /\ UNCHANGED <<req, wf, intent, confidence, security_result, sql_query,
                   executed_sql, rows, outcome, open_conns>>
    /\ UNCHANGED gate_vars
    /\ UNCHANGED <<intent_raised, exec_raised>>
    /\ UNCHANGED library_vars

\* The end of run_unified_workflow: the workflow's dict gets intent_confidence
\* (and, on the text path, workflow_type) and is returned
Unified_Return ==
    /\ pc = "returned"
    /\ result' = IF wf = "text"
                 THEN ("workflow_type" :> "text"
                       @@ "intent_confidence" :> confidence) @@ result
                 ELSE ("intent_confidence" :> confidence) @@ result
    /\ outcome' = "returned"
    /\ pc' = "done"
    /\ UNCHANGED <<req, wf, intent, confidence, security_result, sql_query,
                   executed_sql, rows, raised_at, calls, order, open_conns>>
    /\ UNCHANGED gate_vars
    /\ UNCHANGED history_vars
    /\ UNCHANGED library_vars

(***************************************************************************)
(* extract_sql_from_markdown applied to a text, then to its own result      *)
(***************************************************************************)

\* longest statement or prose handed to the extractor, in pieces
MaxTextLen == 4

\* the pieces of a model answer outside the fences
TextTokens == {"SELECT", "FROM", SP, ";", "x"}

Bodies == UNION {[1..n -> TextTokens] : n \in 0..MaxTextLen}

\* The answers of the translator model: a body bare, in a sql fence, or in a
\* plain fence
Texts ==
    Bodies
    \cup {<<FENCE, "sql", NL>> \o b \o <<NL, FENCE>> : b \in Bodies}
    \cup {<<FENCE, NL>> \o b \o <<NL, FENCE>> : b \in Bodies}

NotExtracted == [ok |-> FALSE, sql |-> <<"not called">>]

NoExtraction ==
    [text |-> <<>>, stage |-> "none", first |-> NotExtracted,
     second |-> NotExtracted, chart |-> NotExtracted]

\* sql = extract_sql_from_markdown(text)
Extract ==
    /\ extraction.stage = "given"
    /\ extraction' = [extraction EXCEPT
                        !.first = extract_sql_from_markdown(extraction.text),
                        !.stage = "extracted"]
    /\ UNCHANGED <<gate_vars, request_vars, parsing, instance, constructed,
                   thread>>

\* extract_sql_from_markdown(sql) on the string the first call returned
ReExtract ==
    /\ extraction.stage = "extracted"
    /\ extraction.first.ok
    /\ extraction' = [extraction EXCEPT
                        !.second = extract_sql_from_markdown(extraction.first.sql),
                        !.stage = "reextracted"]
    /\ UNCHANGED <<gate_vars, request_vars, parsing, instance, constructed,
                   thread>>

\* The extraction of generate_chart_sql on the same model answer
ExtractChart ==
    /\ extraction.stage # "none"
    /\ extraction.chart = NotExtracted
    /\ extraction' = [extraction EXCEPT
                        !.chart = chart_sql_extract(extraction.text)]
    /\ UNCHANGED <<gate_vars, request_vars, parsing, instance, constructed,
                   thread>>

(***************************************************************************)
(* The JSON extraction of detect_chart_intent and                           *)
(* generate_chart_specification.  In a model answer "{" and "}" are the     *)
(* braces of an object (an inner "{" stands for a member whose value is an  *)
(* object), "k" is a member with a scalar value, "x" is prose.              *)
(***************************************************************************)

\* three backticks followed by json
JOPEN == "<fence>json"

\* longest model answer handed to the JSON extraction, in pieces
MaxJsonLen == 5

JsonTokens == {"{", "}", "k", "x"}

JsonBodies == UNION {[1..n -> JsonTokens] : n \in 0..MaxJsonLen}

\* The answers of the model: a body bare, or in a json fence
Contents ==
    JsonBodies \cup {<<JOPEN, NL>> \o b \o <<NL, FENCE>> : b \in JsonBodies}

\* opening minus closing braces among the first n pieces
Depth(s, n) ==
    Cardinality({i \in 1..n : s[i] = "{"}) - Cardinality({i \in 1..n : s[i] = "}"})

\* json.loads(s) returns: s, whitespace aside, is one object whose members
\* are scalars and objects
ValidJson(s) ==
    LET t == Strip(s)
    IN  /\ Len(t) >= 2
        /\ \A i \in 1..Len(t) : t[i] \in {"{", "}", "k"} \cup Whitespace
        /\ \A n \in 1..(Len(t) - 1) : Depth(t, n) > 0
        /\ Depth(t, Len(t)) = 0

\* the position of the first piece at or after from that is not whitespace
SkipSpace(text, from) ==
    Min({i \in from..(Len(text) + 1) :
            /\ \A j \in from..(i - 1) : text[j] \in Whitespace
            /\ i = Len(text) + 1 \/ text[i] \notin Whitespace})

\* the positions b of a "}" after a that only whitespace separates from a fence
JsonFenceEnds(text, a) ==
    {b \in (a + 1)..Len(text) :
        /\ text[b] = "}"
        /\ LET f == SkipSpace(text, b + 1)
           IN  f <= Len(text) /\ text[f] = FENCE}

\* re.search(r'<fence>json\s*(\{.*?\})\s*<fence>', content, re.DOTALL): the
\* positions where a match can start
JsonFenceStarts(text) ==
    {i \in 1..Len(text) :
        /\ text[i] = JOPEN
        /\ LET a == SkipSpace(text, i + 1)
           IN  a <= Len(text) /\ text[a] = "{" /\ JsonFenceEnds(text, a) # {}}

\* group(1) of the leftmost match, the lazy .*? ending at the first "}" that
\* the closing fence follows
JsonFenceGroup(text) ==
    LET i == Min(JsonFenceStarts(text))
        a == SkipSpace(text, i + 1)
    IN  SubSeq(text, a, Min(JsonFenceEnds(text, a)))

\* re.search(r'\{.*?\}', content, re.DOTALL)
BraceStarts(text) ==
    {a \in 1..Len(text) :
        text[a] = "{" /\ \E b \in (a + 1)..Len(text) : text[b] = "}"}

\* group(0): from the first "{" to the first "}" after it
BraceGroup(text) ==
    LET a == Min(BraceStarts(text))
    IN  SubSeq(text, a, Min({b \in (a + 1)..Len(text) : text[b] = "}"}))

\* json_str as detect_chart_intent and generate_chart_specification choose it
json_str(content) ==
    IF JsonFenceStarts(content) # {} THEN JsonFenceGroup(content)
    ELSE IF BraceStarts(content) # {} THEN BraceGroup(content)
    ELSE content

NoParsing == [content |-> <<>>, stage |-> "none", json_str |-> <<>>, ok |-> FALSE]

\* result = json.loads(json_str): returns, or raises JSONDecodeError
ParseJson ==
    /\ parsing.stage = "given"
    /\ LET candidate == json_str(parsing.content)
       IN  parsing' = [parsing EXCEPT !.stage = "parsed",
                                      !.json_str = candidate,
                                      !.ok = ValidJson(candidate)]
    /\ UNCHANGED <<gate_vars, request_vars, extraction, instance, constructed,
                   thread>>

(***************************************************************************)
(* The singleton getters get_guardrails and get_snowflake_connector, called *)
(* by the threads of one process.  A getter is four steps of bytecode       *)
(* between which the interpreter can switch threads: the test of the        *)
(* global, the constructor call, the store to the global, the load of the   *)
(* global for the return.                                                   *)
(***************************************************************************)

\* threads of the process that call a getter
NumThreads == 3

Threads == 1..NumThreads

Getters == {"guardrails", "snowflake_connector"}

NoInstances == [g \in Getters |-> 0]

IdleThread == [pc |-> "idle", getter |-> "none", made |-> 0, ret |-> 0]

\* a thread calls get_guardrails() or get_snowflake_connector()
Getter_Call(t) ==
    /\ thread[t].pc = "idle"
    /\ \E g \in Getters :
        thread' = [thread EXCEPT ![t] = [@ EXCEPT !.pc = "test", !.getter = g]]
    /\ UNCHANGED <<instance, constructed>>
    /\ UNCHANGED <<gate_vars, request_vars, extraction, parsing>>

\* if _guardrails is None:
Getter_Test(t) ==
    /\ thread[t].pc = "test"
    /\ thread' = [thread EXCEPT ![t].pc =
                    IF instance[thread[t].getter] = 0 THEN "construct"
                    ELSE "return"]
    /\ UNCHANGED <<instance, constructed>>
    /\ UNCHANGED <<gate_vars, request_vars, extraction, parsing>>

\* MultiLayerGuardrails() / SnowflakeConnector(): a new object is made, or
\* SnowflakeConnector.__init__ raises on a missing configuration value and
\* the exception leaves the getter
Getter_Construct(t) ==
    /\ thread[t].pc = "construct"
    /\ LET g == thread[t].getter
       IN  \E init \in {"ok", "ValueError"} :
            IF init = "ValueError" /\ g = "snowflake_connector"
            THEN /\ thread' = [thread EXCEPT ![t].pc = "raised"]
                 /\ UNCHANGED constructed
            ELSE /\ constructed' = [constructed EXCEPT ![g] = @ + 1]
                 /\ thread' = [thread EXCEPT ![t] =
                                 [@ EXCEPT !.pc = "store",
                                           !.made = constructed'[g]]]
    /\ UNCHANGED instance
    /\ UNCHANGED <<gate_vars, request_vars, extraction, parsing>>

\* _guardrails = <the new object>
Getter_Store(t) ==
    /\ thread[t].pc = "store"
    /\ instance' = [instance EXCEPT ![thread[t].getter] = thread[t].made]
    /\ thread' = [thread EXCEPT ![t].pc = "return"]
    /\ UNCHANGED constructed
    /\ UNCHANGED <<gate_vars, request_vars, extraction, parsing>>

\* return _guardrails
Getter_Return(t) ==
    /\ thread[t].pc = "return"
    /\ thread' = [thread EXCEPT ![t] =
                    [@ EXCEPT !.pc = "done", !.ret = instance[thread[t].getter]]]
    /\ UNCHANGED <<instance, constructed>>
    /\ UNCHANGED <<gate_vars, request_vars, extraction, parsing>>

(***************************************************************************)
(* Initial states and specifications                                       *)
(***************************************************************************)

\* The process after its imports, before any request
InitRequest ==
    /\ guardrails = FALSE
    /\ model_loaded = FALSE
    /\ n_checks = 0
    /\ last_check = NoCheck
    /\ pc = "idle"
    /\ req = NoRequest
    /\ wf = "none"
    /\ intent = "none"
    /\ confidence = 0
    /\ security_result = NoDict
    /\ sql_query = <<>>
    /\ executed_sql = <<>>
    /\ rows = 0
    /\ result = NoDict
    /\ outcome = "running"
    /\ raised_at = "none"
    /\ calls = NoCalls
    /\ order = <<>>
    /\ open_conns = 0
    /\ intent_raised = FALSE
    /\ exec_raised = "none"
    /\ last_spec = NoSpecCall

\* _guardrails = None, _snowflake_connector = None, no thread in a getter
InitSingletons ==
    /\ instance = NoInstances
    /\ constructed = NoInstances
    /\ thread = [t \in Threads |-> IdleThread]

Init ==
    /\ InitRequest
    /\ InitSingletons
    /\ extraction = NoExtraction
    /\ parsing = NoParsing

Next ==
    \/ Submit
    \/ Unified_DetectIntent
    \/ RunWorkflow_Security
    \/ RunWorkflow_Translate
    \/ RunWorkflow_Execute
    \/ RunWorkflow_Interpret
    \/ RunChart_Security
    \/ RunChart_GenerateSql
    \/ RunChart_Execute
    \/ RunChart_Specify
    \/ Unified_ImportLocal
    \/ Unified_LocalFallback
    \/ RunChartLocal_Security
    \/ RunChartLocal_GenerateSql
    \/ RunChartLocal_Execute
    \/ RunChartLocal_Specify
    \/ Unified_Return

Spec == Init /\ [][Next]_vars

(***************************************************************************)
(* One request with remote sides that may never answer.  The intent,       *)
(* moderation, translator, interpreter and specifier model calls and the   *)
(* Snowflake connect/execute calls are made with no timeout argument: such *)
(* a call returns when the remote side answers, and not before.  Only       *)
(* requests.post of generate_chart_specification_mcp has one (timeout=10), *)
(* and its expiry is the transport error of SpecEnvs.  The thread of the   *)
(* request keeps running, so a step that stays possible is taken.          *)
(***************************************************************************)

\* The remote side of the call the request is about to make never answers:
\* the request stays inside that call
External_NeverResponds ==
    /\ pc \in {"route", "security", "translate", "execute", "respond"}
    /\ pc = "route" => ~(req.force_chart \/ req.force_text)
    /\ pc = "execute" => wf # "chart_local"
    /\ pc' = "blocked"
    /\ UNCHANGED <<req, wf, intent, confidence, security_result, sql_query,
                   executed_sql, rows, result, outcome, raised_at, calls, order,
                   open_conns>>
    /\ UNCHANGED gate_vars
    /\ UNCHANGED history_vars
    /\ UNCHANGED library_vars

NextLive == Next \/ External_NeverResponds

SpecLive == Init /\ [][NextLive]_vars /\ WF_vars(NextLive)

(***************************************************************************)
(* The safety gate called on its own: run_security_checks with any          *)
(* threshold, several times on one process                                  *)
(***************************************************************************)

GateCall ==
    /\ n_checks < MaxChecks
    /\ \E thr \in Thresholds, env \in GateEnvs(Scores) :
           run_security_checks(env, thr)
    /\ UNCHANGED request_vars
    /\ UNCHANGED library_vars

SpecGate == Init /\ [][GateCall]_vars

(***************************************************************************)
(* extract_sql_from_markdown on every text of Texts                         *)
(***************************************************************************)

InitExtract ==
    /\ InitRequest
    /\ InitSingletons
    /\ \E t \in Texts :
        extraction = [text |-> t, stage |-> "given", first |-> NotExtracted,
                      second |-> NotExtracted, chart |-> NotExtracted]
    /\ parsing = NoParsing

NextExtract == Extract \/ ReExtract \/ ExtractChart

SpecExtract == InitExtract /\ [][NextExtract]_vars

(***************************************************************************)
(* The JSON extraction on every answer of Contents                          *)
(***************************************************************************)

InitJson ==
    /\ InitRequest
    /\ InitSingletons
    /\ extraction = NoExtraction
    /\ \E c \in Contents :
        parsing = [content |-> c, stage |-> "given", json_str |-> <<>>,
                   ok |-> FALSE]

SpecJson == InitJson /\ [][ParseJson]_vars

(***************************************************************************)
(* The getters called by concurrent threads                                 *)
(***************************************************************************)

NextSingleton ==
    \E t \in Threads :
        \/ Getter_Call(t)
        \/ Getter_Test(t)
        \/ Getter_Construct(t)
        \/ Getter_Store(t)
        \/ Getter_Return(t)

SpecSingleton == Init /\ [][NextSingleton]_vars

(***************************************************************************)
(* Properties                                                              *)
(***************************************************************************)

Checked == n_checks > 0

StoreCalls == calls.snowflake + calls.sqlite

\* C1: whenever the content-moderation classifier flagged the request's text,
\* no translator call and no store call is made for the request, and the
\* pipeline returns a failure dict whose error names harmful_content
C1_HarmfulContentBlocked ==
    (Checked /\ last_check.mod = "flagged") =>
        /\ calls.translator = 0
        /\ StoreCalls = 0
        /\ pc = "done" =>
            /\ outcome = "returned"
            /\ result.success = FALSE
            /\ result.error = <<"Security check failed", "harmful_content">>

C1_Witness ==
    /\ pc = "done" /\ wf = "chart_local"
    /\ last_check.mod = "flagged"
    /\ result.success = FALSE

\* C2: the intent-classification model call is made only after the safety
\* check has completed without blocking
C2_SafetyBeforeIntent ==
    calls.intent > 0 => (calls.security > 0 /\ ~security_result.blocked)

JailbreakBlocked(results) ==
    results.blocked /\ results.reason = "jailbreak_attempt"

\* C3 as claimed: a text that moderation did not flag and whose jailbreak
\* score is at least the threshold is blocked as jailbreak_attempt
C3_BlockedAtOrAboveThreshold ==
    (/\ Checked /\ last_check.mod # "flagged" /\ last_check.jb = "scored"
     /\ last_check.score >= last_check.threshold)
        => JailbreakBlocked(last_check.results)

\* C3 as amended: a text that moderation did not flag is blocked as
\* jailbreak_attempt when its score is above the threshold, and is not
\* blocked when its score equals the threshold
C3_BlockedAboveThreshold ==
    (Checked /\ last_check.mod # "flagged" /\ last_check.jb = "scored") =>
        /\ last_check.score > last_check.threshold
               => JailbreakBlocked(last_check.results)
        /\ last_check.score = last_check.threshold
               => ~last_check.results.blocked

C3_Witness ==
    /\ Checked /\ last_check.mod = "error" /\ last_check.jb = "scored"
    /\ last_check.score = last_check.threshold + 1
    /\ JailbreakBlocked(last_check.results)

\* C4: when the jailbreak classifier raised (model load or inference), the
\* check does not block and its jailbreak_detection entry records the error
C4_JailbreakErrorRecorded ==
    (Checked /\ last_check.jb \in {"load_failed", "infer_failed"}) =>
        /\ ~last_check.results.blocked
        /\ "error" \in DOMAIN last_check.results.checks.jailbreak_detection

FallibleStages == {"translate", "extract", "execute", "interpret", "specify"}

\* C6: when a stage raised, run_unified_workflow returns a dict with
\* success = false; the exception does not reach the caller
C6_StageFailureReturned ==
    (pc = "done" /\ raised_at \in FallibleStages) =>
        (outcome = "returned" /\ result.success = FALSE)

\* C7: in one call of run_unified_workflow the safety check, the SQL
\* translation and the query execution are each entered at most once
C7_NoStageReentered ==
    /\ calls.security <= 1
    /\ calls.translator <= 1
    /\ StoreCalls <= 1

C7_Witness ==
    /\ pc = "done" /\ wf = "chart_local" /\ raised_at = "execute"
    /\ result.success = FALSE
    /\ calls.security = 1 /\ calls.translator = 1 /\ StoreCalls = 1

\* LIMIT, whitespace, then a digit: /LIMIT\s+\d+/i
HasLimit(sql) ==
    \E i \in 1..Len(sql), j \in 1..Len(sql) :
        /\ sql[i] \in {"LIMIT", "limit"}
        /\ i + 1 < j
        /\ \A k \in (i + 1)..(j - 1) : sql[k] \in Whitespace
        /\ sql[j] \in Digits

\* /^SELECT\b.*LIMIT\s+\d+/is and no INSERT|UPDATE|DELETE|DROP
IsBoundedSelect(sql) ==
    /\ sql # <<>>
    /\ sql[1] \in SelectTokens
    /\ HasLimit(sql)
    /\ ~Contains(sql, DmlTokens)

\* C8: every statement handed to a query executor begins with SELECT, has a
\* LIMIT with a number, and has no INSERT, UPDATE, DELETE or DROP
C8_ExecutedSqlIsBoundedSelect ==
    StoreCalls > 0 => IsBoundedSelect(sql_query)

\* C9: a connection that an executor opened has been closed when the
\* executor returns or raises
C9_ConnectionReleased == open_conns = 0

\* C10: a flagged text ends check_all with harmful_content and without a
\* jailbreak check or jailbreak_detection entry; any other text has the
\* jailbreak check run once, after the moderation check
C10_ShortCircuit ==
    Checked =>
        IF last_check.mod = "flagged"
        THEN /\ last_check.results.blocked
             /\ last_check.results.reason = "harmful_content"
             /\ last_check.events = <<"moderation">>
             /\ "jailbreak_detection" \notin DOMAIN last_check.results.checks
        ELSE /\ last_check.events = <<"moderation", "jailbreak">>
             /\ "jailbreak_detection" \in DOMAIN last_check.results.checks

C10_Witness ==
    /\ n_checks = 2 /\ last_check.mod = "flagged"
    /\ last_check.results.reason = "harmful_content"


\* C11: when detect_chart_intent raised, the request is not failed by it:
\* run_unified_workflow goes on with the text workflow, with intent text and
\* confidence 0.5, and a returned dict carries workflow_type text and
\* intent_confidence 0.5
C11_IntentFailureFallsBackToText ==
    intent_raised =>
        /\ intent = "text"
        /\ confidence = 5
        /\ wf = "text"
        /\ raised_at # "intent"
        /\ outcome = "returned" =>
            /\ result.workflow_type = "text"
            /\ result.intent_confidence = 5

C11_Witness ==
    /\ intent_raised
    /\ outcome = "returned"
    /\ result.success = TRUE
    /\ result.intent_confidence = 5

Forced == req.force_chart \/ req.force_text

Routed == pc \notin {"idle", "route"}

\* C12: with force_chart or force_text set (force_chart is tested first), the
\* intent is the forced one with confidence 1.0, detect_chart_intent is not
\* called for the request, and a returned dict carries intent_confidence 1.0
C12_ForcedIntentSkipsDetection ==
    (Routed /\ Forced) =>
        /\ intent = IF req.force_chart THEN "chart" ELSE "text"
        /\ confidence = 10
        /\ calls.intent = 0
        /\ ~intent_raised
        /\ outcome = "returned" => result.intent_confidence = 10

C12_Witness ==
    /\ req.force_text /\ ~req.force_chart
    /\ outcome = "returned"
    /\ result.success = TRUE
    /\ result.workflow_type = "text"
    /\ calls.intent = 0

OnChartPath == wf \in {"chart", "chart_local"}

\* the executor of this request returned, with no row
StoreReturnedNoRows == StoreCalls > 0 /\ exec_raised = "none" /\ rows = 0

\* C13: on the chart path, when the store returned zero rows the workflow
\* returns the failure dict "Query returned no results" with the generated SQL
\* and neither the model specifier nor the specification service is called; a
\* chart success dict has at least one row and row_count = len(raw_results)
C13_ChartEmptyResultFails ==
    /\ (OnChartPath /\ StoreReturnedNoRows) =>
        /\ "success" \in DOMAIN result
        /\ result.success = FALSE
        /\ result.error = <<"Query returned no results", "">>
        /\ result.sql_query = sql_query
        /\ calls.specifier = 0
        /\ calls.mcp = 0
        /\ last_spec = NoSpecCall
    /\ (OnChartPath /\ "success" \in DOMAIN result /\ result.success) =>
        /\ result.raw_results > 0
        /\ result.row_count = result.raw_results

C13_Witness ==
    /\ wf = "chart" /\ pc = "done"
    /\ StoreReturnedNoRows
    /\ result.success = FALSE
    /\ result.sql_query = GoodSql

\* C14: on the text path, when the store returned zero rows the interpreter is
\* still called, and run_workflow returns success = True with empty
\* raw_results unless the interpreter call itself raises
C14_TextEmptyResultSucceeds ==
    (wf = "text" /\ StoreReturnedNoRows /\ pc = "done") =>
        /\ calls.interpreter = 1
        /\ outcome = "raised" => raised_at = "interpret"
        /\ outcome = "returned" =>
            /\ result.success = TRUE
            /\ result.raw_results = 0

C14_Witness ==
    /\ wf = "text" /\ pc = "done"
    /\ StoreReturnedNoRows
    /\ outcome = "returned"
    /\ result.success = TRUE
    /\ result.raw_results = 0

\* C15: a request whose executor raised a connectivity error (network policy,
\* failure to connect) returns a failure dict with a non-empty suggestion
C15_ConnectivityFailureHasSuggestion ==
    (pc = "done" /\ IsConnectivityError(exec_raised)) =>
        /\ outcome = "returned"
        /\ result.success = FALSE
        /\ "suggestion" \in DOMAIN result
        /\ result.suggestion # ""

\* the request ended without a success dict
RequestFailed ==
    /\ pc = "done"
    /\ \/ outcome = "raised"
       \/ outcome = "returned" /\ result.success = FALSE

\* C16: a request that failed after its SQL was generated returns a failure
\* dict that contains that SQL
C16_FailureCarriesSql ==
    (RequestFailed /\ sql_query # <<>>) =>
        /\ outcome = "returned"
        /\ "sql_query" \in DOMAIN result
        /\ result.sql_query = sql_query

MultiSeriesTypes == {"multi_line", "grouped_bar"}

\* C17: in every ChartSpecification a specification call returned, y_axis is
\* a list exactly when chart_type is multi_line or grouped_bar
C17_YAxisListIffMultiSeries ==
    last_spec.ok =>
        (last_spec.spec.y_axis = "list"
            <=> last_spec.spec.chart_type \in MultiSeriesTypes)

\* generate_chart_specification_mcp was called for this request
ServiceSelected == last_spec # NoSpecCall /\ last_spec.use_mcp_server

\* C20: with the service selected, a transport error and a non-200 answer both
\* lead to the model specifier, and the call returns a ChartSpecification
\* when a model call succeeded and raises when it did not, as the direct
\* path; with no address configured the model specifier is called and no
\* HTTP request is made
C20_ServiceFallsBackToModel ==
    ServiceSelected =>
        /\ last_spec.post \in {"error", "500"} =>
            /\ last_spec.mcp_calls = 1
            /\ last_spec.llm # "none"
            /\ last_spec.ok <=> "ok" \in {last_spec.llm, last_spec.llm_again}
        /\ last_spec.mcp_server_url \in NoUrl =>
            /\ last_spec.mcp_calls = 0
            /\ calls.mcp = 0
            /\ last_spec.llm_calls = 1
            /\ last_spec.ok <=> last_spec.llm = "ok"
        /\ last_spec.ok => last_spec.spec \in ChartSpecs
        /\ ~last_spec.ok => last_spec.spec = NoSpec

C20_Witness ==
    /\ ServiceSelected
    /\ last_spec.post = "500"
    /\ last_spec.ok
    /\ pc = "done"
    /\ result.success = TRUE
    /\ result.chart_spec = last_spec.spec

\* C18: for every string s that extract_sql_from_markdown returned and that
\* contains no fence, extract_sql_from_markdown(s) returns s
C18_ExtractionIdempotent ==
    (extraction.stage = "reextracted"
     /\ ~Contains(extraction.first.sql, {FENCE})) =>
        /\ extraction.second.ok
        /\ extraction.second.sql = extraction.first.sql

\* C19: each singleton class is constructed at most once in the process, and
\* all the threads that a getter returned to hold the same instance
C19_SingletonConstructedOnce ==
    /\ \A g \in Getters : constructed[g] <= 1
    /\ \A t, u \in Threads :
        (thread[t].pc = "done" /\ thread[u].pc = "done"
         /\ thread[t].getter = thread[u].getter) =>
            thread[t].ret = thread[u].ret

\* the safety gate ran for this request and blocked it
GateBlocked == security_result # NoDict /\ security_result.blocked

\* the stage at which an exception recorded in raised_at was raised
FailedStage == IF raised_at = "extract" THEN "translate" ELSE raised_at

\* C21: the translator is called only after the gate passed the text, the
\* executor only after SQL was extracted, the interpreter and the specifier
\* only after the executor returned; and the stage that blocked or failed is
\* the last stage entered for the request
C21_NoStageAfterFailure ==
    /\ calls.translator > 0 =>
        /\ security_result # NoDict
        /\ ~security_result.blocked
    /\ StoreCalls > 0 =>
        /\ calls.translator = 1
        /\ raised_at \notin {"translate", "extract"}
    /\ calls.interpreter + calls.specifier + calls.mcp > 0 =>
        /\ StoreCalls = 1
        /\ exec_raised = "none"
        /\ raised_at # "execute"
    /\ GateBlocked => order[Len(order)] = "security"
    /\ raised_at # "none" => order[Len(order)] = FailedStage

C21_Witness ==
    /\ pc = "done" /\ wf = "chart"
    /\ raised_at = "extract"
    /\ StoreCalls = 0
    /\ calls.specifier = 0
    /\ result.success = FALSE

\* both extractions were applied to the model answer
BothExtracted ==
    /\ extraction.stage \in {"extracted", "reextracted"}
    /\ extraction.chart # NotExtracted

\* C22: on every model answer the extraction of generate_chart_sql and
\* extract_sql_from_markdown give the same SQL string, or both raise
C22_ChartExtractionSameAsText ==
    BothExtracted =>
        /\ extraction.chart.ok = extraction.first.ok
        /\ extraction.chart.sql = extraction.first.sql

\* C23: whenever the whole model answer is valid JSON, the JSON extraction
\* ends with a successful json.loads
C23_ValidJsonAnswerParses ==
    (parsing.stage = "parsed" /\ ValidJson(parsing.content)) => parsing.ok

\* C24: every request handed to run_unified_workflow eventually ends, with a
\* returned dict or an exception, also when a remote side never answers
C24_RequestTerminates == (pc = "route") ~> (pc = "done")

\* C25: a request with use_local_db set never contacts the Snowflake store
C25_LocalBackendHonoured == req.use_local_db => calls.snowflake = 0

\* run_unified_workflow returned a success dict
ReturnedSuccess == outcome = "returned" /\ result.success = TRUE

\* C26: a success dict returned by run_unified_workflow has the SQL text and
\* the rows, and analysis without chart_spec when the intent is text,
\* chart_spec without analysis when the intent is chart
C26_SuccessHasOnePayload ==
    ReturnedSuccess =>
        /\ {"sql_query", "raw_results"} \subseteq DOMAIN result
        /\ result.sql_query = sql_query
        /\ result.raw_results = rows
        /\ intent \in {"text", "chart"}
        /\ intent = "text" =>
            "analysis" \in DOMAIN result /\ "chart_spec" \notin DOMAIN result
        /\ intent = "chart" =>
            "chart_spec" \in DOMAIN result /\ "analysis" \notin DOMAIN result

C26_Witness ==
    /\ ReturnedSuccess
    /\ intent = "chart" /\ wf = "chart_local"
    /\ result.chart_spec \in ChartSpecs
    /\ result.raw_results > 0

\* C27: one call of generate_chart_specification_mcp calls
\* generate_chart_specification at most once
C27_SpecifierCalledAtMostOnce ==
    ServiceSelected => last_spec.llm_calls <= 1

\* C28: every dict run_unified_workflow returns carries workflow_type: chart
\* for a request routed to a chart workflow, text for one routed to the text
\* workflow
C28_WorkflowTypeOnEveryResult ==
    outcome = "returned" =>
        /\ "workflow_type" \in DOMAIN result
        /\ result.workflow_type = intent

\* C29: in the dict check_all returned, blocked holds exactly when reason is
\* harmful_content or jailbreak_attempt, and reason is None otherwise;
\* safe_text is there exactly when blocked is false; checks has a
\* jailbreak_detection entry only when the moderation entry did not block
C29_CheckAllResultShape ==
    Checked =>
        LET results == last_check.results
        IN  /\ results.reason \in {"None", "harmful_content", "jailbreak_attempt"}
            /\ results.blocked <=> results.reason # "None"
            /\ "safe_text" \in DOMAIN results <=> ~results.blocked
            /\ "openai_moderation" \in DOMAIN results.checks
            /\ "jailbreak_detection" \in DOMAIN results.checks =>
                ~results.checks.openai_moderation.blocked

C29_Witness ==
    /\ Checked
    /\ last_check.results.blocked
    /\ last_check.results.reason = "jailbreak_attempt"
    /\ "jailbreak_detection" \in DOMAIN last_check.results.checks
    /\ "safe_text" \notin DOMAIN last_check.results

\* detect was called in the latest check
DetectCalled == Checked /\ last_check.jb # "not_run"

\* C30: over the detect calls made on one detector: every call returns a
\* dict; a call on an unloaded detector attempts the load, and model_loaded
\* is set exactly when that load succeeded; a call on a loaded detector loads
\* nothing; and model_loaded, once true, stays true
C30_LazyLoadOnce ==
    /\ [](DetectCalled =>
            /\ "jailbreak_detection" \in DOMAIN last_check.results.checks
            /\ ~last_check.was_loaded => last_check.loads = 1
            /\ last_check.jb = "load_failed" =>
                ~last_check.was_loaded /\ ~model_loaded
            /\ last_check.jb # "load_failed" => model_loaded
            /\ last_check.was_loaded => last_check.loads = 0)
    /\ [](model_loaded => Checked)
    /\ [][model_loaded => model_loaded']_vars
    /\ [][(~model_loaded /\ model_loaded') =>
            (last_check'.jb \in {"scored", "infer_failed"}
             /\ last_check'.loads = 1)]_vars

C30_Witness ==
    /\ n_checks = 2
    /\ last_check.was_loaded
    /\ last_check.jb = "scored"
    /\ last_check.loads = 0
    /\ model_loaded

=============================================================================
